---- MODULE Spec2Model ----
(***************************************************************************)
(* Model of test-dry-run.js, the offline validator of n8n workflow         *)
(* documents: file loading, schema validation, connection graph analysis,  *)
(* node name references, code node execution against the mock context,     *)
(* Claude request validation, and the final report / exit status.          *)
(*                                                                         *)
(* The script is one synchronous run.  Its position is (sec, fi, ni, step):*)
(* the section being executed, the index of the workflow file the          *)
(* section's loop is at, the index of the node inside the per-node loops   *)
(* of sections 4 and 5, and the step inside section 2.  An uncaught        *)
(* exception ends the run at sec = "crashed" with exit status 1 and no     *)
(* summary.                                                                *)
(***************************************************************************)
EXTENDS Integers, Sequences, FiniteSets, TLC

VARIABLES
    files,       \* input: what each workflow file holds on disk
    workflows,   \* workflows[file]: the parsed document, or null
    sec,         \* section the run is in
    fi,          \* index into WORKFLOW_FILES of the current loop iteration
    ni,          \* index into codeNodes / claudeNodes of the current document
    step,        \* step inside the connection-graph section
    passed,      \* counter of passed checks
    failed,      \* counter of failed checks
    failures,    \* list of failure messages
    out,         \* result lines printed so far (one per pass / fail call)
    summary,     \* TRUE once the RESULTS summary has been printed
    exitStatus,  \* process exit status, -1 while the process runs
    reachable,   \* reachability traversal: the reachable set
    queue,       \* reachability traversal: the queue
    enqueued,    \* history: every name pushed on the queue, in order
    dequeued,    \* history: every name shifted off the queue, in order
    mockShared,  \* state of the module-level MOCK_* objects
    globalLeak,  \* TRUE once a script has written a property of globalThis
    seen,        \* history: what each executed script could observe
    scanner      \* the pattern object and name set the last extraction left behind

vars == <<files, workflows, sec, fi, ni, step, passed, failed, failures, out,
          summary, exitStatus, reachable, queue, enqueued, dequeued,
          mockShared, globalLeak, seen, scanner>>

\* ------------------------------------------------------------------------
\* Program constants
\* ------------------------------------------------------------------------

\* WORKFLOW_FILES has two entries.
NumFiles == 2

NS == "n8n-nodes-base"

TRIGGER_TYPES == {"manualTrigger", "googleSheetsTrigger", "scheduleTrigger"}

REQUIRED_TOP_KEYS == <<"name", "nodes", "connections", "settings">>

REQUIRED_NODE_KEYS == <<"id", "name", "type", "position">>

\* ------------------------------------------------------------------------
\* Sequence helpers
\* ------------------------------------------------------------------------

Range(s) == {s[i] : i \in DOMAIN s}

NoDup(s) == \A i, j \in DOMAIN s : i # j => s[i] # s[j]

\* ------------------------------------------------------------------------
\* Values of a parsed workflow document (the shapes the script looks at)
\* ------------------------------------------------------------------------

\* A node's `type` string "<ns>.<kind>"; kind "undefined" when the key is
\* missing.
Type(ns, kind) == [ns |-> ns, kind |-> kind]

Base(kind) == Type(NS, kind)

\* An edge { node: target } of an output slot, or a null entry.
Edge(target) == [isNull |-> FALSE, node |-> target]

NullEdge == [isNull |-> TRUE, node |-> ""]

\* An entry of `main`: an array of edges, null, or (malformed) an edge object
\* placed directly in `main`.
Slot(edges) == [kind |-> "array", edges |-> edges, node |-> ""]

NullSlot == [kind |-> "null", edges |-> <<>>, node |-> ""]

BareEdgeSlot(target) == [kind |-> "object", edges |-> <<>>, node |-> target]

\* The value of connections[src]: an object with or without `main`, or null.
Outputs(main) == [kind |-> "object", hasMain |-> TRUE, main |-> main]

NoMain == [kind |-> "object", hasMain |-> FALSE, main |-> <<>>]

NullOutputs == [kind |-> "null", hasMain |-> FALSE, main |-> <<>>]

\* One key of `connections` with its value; `connections` is the sequence of
\* its entries in key order (Object.keys / Object.entries order).
Conn(src, outputs) == [key |-> src, outputs |-> outputs]

\* The `messages` field of a request body.
Msg(role, content) == [isNull |-> FALSE, role |-> role, content |-> content]

NullMsg == [isNull |-> TRUE, role |-> FALSE, content |-> FALSE]

Messages(kind, items) == [kind |-> kind, items |-> items]

\* parameters.jsonBody.  kind: "absent" (undefined or ""), "nonString" (an
\* object or number), "text".  For a text: `lead` is the leading "=", `exprs`
\* the kinds of {{ }} expressions it embeds ("plain", "quoted": holding a
\* double quote, "braced": holding a double quote and a closing brace), `json` what the text is once the
\* expressions are replaced ("malformed", "null", "number", "object"), the
\* fields of that object, and `refs` the names in $('...') tokens of the text.
Body(kind, lead, exprs, json, model, maxTokens, system, messages, refs) ==
    [kind |-> kind, lead |-> lead, exprs |-> exprs, json |-> json,
     model |-> model, max_tokens |-> maxTokens, system |-> system,
     messages |-> messages, refs |-> refs]

NoBody ==
    Body("absent", FALSE, {}, "malformed", "undefined",
         [isNum |-> FALSE, n |-> 0], "undefined",
         Messages("undefined", <<>>), <<>>)

\* A node.  `missing`: the REQUIRED_NODE_KEYS it lacks; `position`: "pair",
\* "notArray", "wrongLength" or "notNumbers"; `jsCode`: the script it carries
\* (a name of Scripts, "absent" when parameters.jsCode is undefined or "");
\* `refs`: the names in $('...') tokens of its script and other parameter
\* strings; `url`, `method`, `jsonBody`: its request parameters.
Node(name, type, missing, position, jsCode, refs, url, method, jsonBody) ==
    [name |-> name, type |-> type, missing |-> missing, position |-> position,
     jsCode |-> jsCode, refs |-> refs, url |-> url, method |-> method,
     jsonBody |-> jsonBody]

PlainNode(name, kind) ==
    Node(name, Base(kind), {}, "pair", "absent", <<>>, "", "", NoBody)

CLAUDE_URL == "https://api.anthropic.com/v1/messages"

CodeNode(name, script, refs) ==
    Node(name, Base("code"), {}, "pair", script, refs, "", "", NoBody)

ClaudeNode(name, body) ==
    Node(name, Base("httpRequest"), {}, "pair", "absent", <<>>, CLAUDE_URL,
         "POST", body)

\* A file's parse result.  kind: "object" (a JSON object), "falsy" (the file
\* holds null, false, 0 or ""), "null" (the value the loader stores when the
\* file cannot be read or parsed), "unset" (before loading).  `top`: the
\* keys among "name" and "settings" that are present; nodesKind: "array", "undefined", "object";
\* connKind: "object", "array", "null", "undefined".
Doc(top, nodesKind, nodes, connKind, connections) ==
    [kind |-> "object", top |-> top, nodesKind |-> nodesKind, nodes |-> nodes,
     connKind |-> connKind, connections |-> connections]

Scalar(kind) ==
    [kind |-> kind, top |-> {}, nodesKind |-> "undefined", nodes |-> <<>>,
     connKind |-> "undefined", connections |-> <<>>]

\* What a file holds: text that does not parse (or a missing file), or text
\* that parses to `doc`.
Unparsable == [parses |-> FALSE, doc |-> Scalar("null")]

Parsable(doc) == [parses |-> TRUE, doc |-> doc]

\* ------------------------------------------------------------------------
\* Helpers: pass, fail, assert
\* ------------------------------------------------------------------------

\* The reporter's state as one value, threaded through the checks of an
\* action.
Rep == [passed |-> passed, failed |-> failed, failures |-> failures, out |-> out]

\* The label of a check: the file it is about, the check, and the node (""
\* for a per-document check).
Label(file, check, node) == [file |-> file, check |-> check, node |-> node]

\* A reporter that keeps only the latest failure.
failLatestOnly(R, label, detail) ==
    [R EXCEPT !.failed = @ + 1,
              !.failures = <<[label |-> label, detail |-> detail]>>,
              !.out = Append(@, [ok |-> FALSE, label |-> label, detail |-> detail])]

pass(R, label) ==
    [R EXCEPT !.passed = @ + 1,
              !.out = Append(@, [ok |-> TRUE, label |-> label, detail |-> <<>>])]

fail(R, label, detail) ==
    [R EXCEPT !.failed = @ + 1,
              !.failures = Append(@, [label |-> label, detail |-> detail]),
              !.out = Append(@, [ok |-> FALSE, label |-> label, detail |-> detail])]

assert(R, condition, label, detail) ==
    IF condition THEN pass(R, label) ELSE fail(R, label, detail)

\* The result of running a piece of the script: the reporter's state after
\* it, and whether it threw an exception that nothing catches.
Ran(R) == [R |-> R, threw |-> FALSE]

Threw(R) == [R |-> R, threw |-> TRUE]

\* ------------------------------------------------------------------------
\* 0. File Loading
\* ------------------------------------------------------------------------

\* JSON.parse(fs.readFileSync(fp)): the document, or an exception.
ParseFile(content) == content

\* if (!wf) continue
Falsy(wf) == wf.kind \in {"null", "falsy", "unset"}

\* for (const file of WORKFLOW_FILES) { try { ... } catch { ... } }
LoadFile ==
    /\ sec = "load"
    /\ fi <= NumFiles
    /\ LET parsed == ParseFile(files[fi])
           R == IF parsed.parses
                THEN pass(Rep, Label(fi, "parses as valid JSON", ""))
                ELSE fail(Rep, Label(fi, "parses as valid JSON", ""),
                          <<<<"e.message">>>>)
       IN /\ workflows' = [workflows EXCEPT ![fi] =
                              IF parsed.parses THEN parsed.doc ELSE Scalar("null")]
          /\ passed' = R.passed
          /\ failed' = R.failed
          /\ failures' = R.failures
          /\ out' = R.out
    /\ fi' = fi + 1
    /\ UNCHANGED <<files, sec, ni, step, summary, exitStatus, reachable, queue,
                   enqueued, dequeued, mockShared, globalLeak, seen, scanner>>

\* ------------------------------------------------------------------------
\* Sections and the per-document loops
\* ------------------------------------------------------------------------

Sections == <<"load", "schema", "graph", "refs", "code", "claude", "report">>

NextSection(s) ==
    LET i == CHOOSE k \in DOMAIN Sections : Sections[k] = s
    IN Sections[i + 1]

\* The loop over the files of one section has ended: section('...') starts
\* the next one.
Section ==
    /\ sec \in {"load", "schema", "graph", "refs", "code", "claude"}
    /\ fi > NumFiles
    /\ sec' = NextSection(sec)
    /\ fi' = 1
    /\ ni' = 1
    /\ step' = "sources"
    /\ UNCHANGED <<files, workflows, passed, failed, failures, out, summary,
                   exitStatus, reachable, queue, enqueued, dequeued,
                   mockShared, globalLeak, seen, scanner>>

\* if (!wf) continue;  at the head of every per-document loop.
SkipDocument ==
    /\ sec \in {"schema", "graph", "refs", "code", "claude"}
    /\ fi <= NumFiles
    /\ Falsy(workflows[fi])
    /\ fi' = fi + 1
    /\ UNCHANGED <<files, workflows, sec, ni, step, passed, failed, failures,
                   out, summary, exitStatus, reachable, queue, enqueued,
                   dequeued, mockShared, globalLeak, seen, scanner>>

\* ------------------------------------------------------------------------
\* Report
\* ------------------------------------------------------------------------

ExitCode(nFailed) == IF nFailed = 0 THEN 0 ELSE 1

\* Prints the summary and the itemized failures, then process.exit.
Report ==
    /\ sec = "report"
    /\ summary' = TRUE
    /\ exitStatus' = ExitCode(failed)
    /\ sec' = "exited"
    /\ UNCHANGED <<files, workflows, fi, ni, step, passed, failed, failures,
                   out, reachable, queue, enqueued, dequeued, mockShared,
                   globalLeak, seen, scanner>>

\* ------------------------------------------------------------------------
\* 1. Schema Validation
\* ------------------------------------------------------------------------

\* JavaScript's undefined, where a name would be.
Undefined == "<undefined>"

\* node.name, undefined when the node has no `name`.
NameOf(node) == IF "name" \in node.missing THEN Undefined ELSE node.name

\* wf[key] !== undefined
HasTopKey(wf, key) ==
    CASE key = "nodes" -> wf.nodesKind # "undefined"
      [] key = "connections" -> wf.connKind # "undefined"
      [] OTHER -> key \in wf.top

RECURSIVE TopKeyAsserts(_, _, _, _)
\* for (const key of REQUIRED_TOP_KEYS) assert(wf[key] !== undefined, ...)
TopKeyAsserts(R, f, wf, i) ==
    IF i > Len(REQUIRED_TOP_KEYS) THEN R
    ELSE TopKeyAsserts(
             assert(R, HasTopKey(wf, REQUIRED_TOP_KEYS[i]),
                    Label(f, "has top-level key", REQUIRED_TOP_KEYS[i]), <<>>),
             f, wf, i + 1)

\* node.name || node.id || '?'
NameOrId(node) ==
    IF "name" \notin node.missing THEN node.name
    ELSE IF "id" \notin node.missing THEN "#id" ELSE "?"

\* node.name || '?'
NameOrQ(node) == IF "name" \notin node.missing THEN node.name ELSE "?"

RECURSIVE MissingKeys(_, _)
\* The badNodes entries of the inner loop over REQUIRED_NODE_KEYS.
MissingKeys(node, i) ==
    IF i > Len(REQUIRED_NODE_KEYS) THEN <<>>
    ELSE (IF REQUIRED_NODE_KEYS[i] \in node.missing
          THEN <<<<NameOrId(node), "missing", REQUIRED_NODE_KEYS[i]>>>>
          ELSE <<>>) \o MissingKeys(node, i + 1)

\* !Array.isArray(position) || length !== 2 || typeof [0], [1] !== 'number'
InvalidPosition(node) == "position" \in node.missing \/ node.position # "pair"

\* typeof node.type === 'string' && !node.type.startsWith('n8n-nodes-base.')
BadTypePrefix(node) == "type" \notin node.missing /\ node.type.ns # NS

\* Everything one iteration of the node loop pushes on badNodes.
BadNodeEntries(node) ==
    MissingKeys(node, 1)
    \o (IF InvalidPosition(node)
        THEN <<<<NameOrQ(node), "invalid position">>>> ELSE <<>>)
    \o (IF BadTypePrefix(node)
        THEN <<<<NameOrQ(node), "type missing prefix", node.type.kind>>>>
        ELSE <<>>)

RECURSIVE BadNodes(_, _)
\* badNodes after the loop over wf.nodes.
BadNodes(nodes, i) ==
    IF i > Len(nodes) THEN <<>>
    ELSE BadNodeEntries(nodes[i]) \o BadNodes(nodes, i + 1)

\* The body of the schema loop for one document.
SchemaChecks(R, f, wf) ==
    LET R1 == TopKeyAsserts(R, f, wf, 1)
        R2 == assert(R1, wf.nodesKind = "array", Label(f, "nodes is an array", ""),
                     <<>>)
        R3 == assert(R2, wf.connKind \in {"object", "null"},
                     Label(f, "connections is an object", ""), <<>>)
        bad == BadNodes(wf.nodes, 1)
    IN IF wf.nodesKind # "array"
       THEN Threw(R3)   \* for (const node of wf.nodes): not iterable
       ELSE Ran(assert(R3, bad = <<>>,
                       Label(f, "all nodes have required fields and valid structure", ""),
                       bad))

\* What every action that runs checks does with their result: the counters
\* and lists move on, and an uncaught exception ends the process with
\* status 1, before any summary.
Apply(res) ==
    /\ passed' = res.R.passed
    /\ failed' = res.R.failed
    /\ failures' = res.R.failures
    /\ out' = res.R.out
    /\ exitStatus' = IF res.threw THEN 1 ELSE exitStatus

SchemaValidation ==
    /\ sec = "schema"
    /\ fi <= NumFiles
    /\ ~Falsy(workflows[fi])
    /\ LET res == SchemaChecks(Rep, fi, workflows[fi])
       IN /\ Apply(res)
          /\ sec' = IF res.threw THEN "crashed" ELSE sec
          /\ fi' = IF res.threw THEN fi ELSE fi + 1
    /\ UNCHANGED <<files, workflows, ni, step, summary, reachable, queue,
                   enqueued, dequeued, mockShared, globalLeak, seen, scanner>>

\* ------------------------------------------------------------------------
\* 2. Connection Graph
\* ------------------------------------------------------------------------

\* new Set(wf.nodes.map((n) => n.name))
NodeNames(wf) == {NameOf(wf.nodes[i]) : i \in DOMAIN wf.nodes}

\* TRIGGER_TYPES.includes(n.type)
IsTrigger(node) ==
    /\ "type" \notin node.missing
    /\ node.type.ns = NS
    /\ node.type.kind \in TRIGGER_TYPES

\* n.type === 'n8n-nodes-base.<kind>'
HasType(node, kind) ==
    "type" \notin node.missing /\ node.type.ns = NS /\ node.type.kind = kind

RECURSIVE TriggerSeq(_, _, _)
\* [...triggerNames]: the names of the trigger nodes in node order, each once
\* (a Set keeps the first insertion).
TriggerSeq(nodes, i, acc) ==
    IF i > Len(nodes) THEN acc
    ELSE IF IsTrigger(nodes[i]) /\ NameOf(nodes[i]) \notin Range(acc)
         THEN TriggerSeq(nodes, i + 1, Append(acc, NameOf(nodes[i])))
         ELSE TriggerSeq(nodes, i + 1, acc)

TriggerNames(wf) == Range(TriggerSeq(wf.nodes, 1, <<>>))

\* wf.connections[name]: whether the key exists, and its value.
HasConn(wf, name) == \E i \in DOMAIN wf.connections : wf.connections[i].key = name

ConnOf(wf, name) ==
    wf.connections[CHOOSE i \in DOMAIN wf.connections :
                       wf.connections[i].key = name].outputs

RECURSIVE BadSources(_, _, _)
\* badSources: the keys of wf.connections that are no node name, in key order.
BadSources(conns, names, i) ==
    IF i > Len(conns) THEN <<>>
    ELSE (IF conns[i].key \notin names THEN <<<<conns[i].key>>>> ELSE <<>>)
         \o BadSources(conns, names, i + 1)

\* Object.keys(wf.connections) throws on null and undefined.
SourceCheck(R, f, wf) ==
    IF wf.nodesKind # "array" \/ wf.connKind \in {"null", "undefined"}
    THEN Threw(R)
    ELSE LET bad == BadSources(wf.connections, NodeNames(wf), 1)
         IN Ran(assert(R, bad = <<>>,
                       Label(f, "all connection source nodes exist", ""), bad))

RECURSIVE SlotEdges(_, _)
\* The edges of the array slots of `main`, in order (a slot that is not an
\* array is skipped: if (!Array.isArray(outputGroup)) continue).
SlotEdges(main, i) ==
    IF i > Len(main) THEN <<>>
    ELSE (IF main[i].kind = "array" THEN main[i].edges ELSE <<>>)
         \o SlotEdges(main, i + 1)

\* outputs.main || []  flattened over its array slots.
MainEdges(outputs) == IF outputs.hasMain THEN SlotEdges(outputs.main, 1) ELSE <<>>

\* EdgeTargets with the membership test made on the source name.
EdgeTargetsBySource(src, edges, names, i) ==
    IF src \in names THEN <<>>
    ELSE [k \in DOMAIN edges |-> <<src, edges[k].node>>]

RECURSIVE EdgeTargets(_, _, _, _)
\* The badTargets entries of one source: "src -> target" for every edge whose
\* target is no node name.
EdgeTargets(src, edges, names, i) ==
    IF i > Len(edges) THEN <<>>
    ELSE (IF edges[i].node \notin names THEN <<<<src, edges[i].node>>>> ELSE <<>>)
         \o EdgeTargets(src, edges, names, i + 1)

RECURSIVE BadTargets(_, _, _)
BadTargets(conns, names, i) ==
    IF i > Len(conns) THEN <<>>
    ELSE EdgeTargets(conns[i].key, MainEdges(conns[i].outputs), names, 1)
         \o BadTargets(conns, names, i + 1)

\* Reading outputs.main of a null value, or conn.node of a null edge, throws.
TargetScanThrows(conns) ==
    \E i \in DOMAIN conns :
        \/ conns[i].outputs.kind = "null"
        \/ \E k \in DOMAIN MainEdges(conns[i].outputs) :
               MainEdges(conns[i].outputs)[k].isNull

TargetCheck(R, f, wf) ==
    IF TargetScanThrows(wf.connections)
    THEN Threw(R)
    ELSE LET bad == BadTargets(wf.connections, NodeNames(wf), 1)
         IN Ran(assert(R, bad = <<>>,
                       Label(f, "all connection target nodes exist", ""), bad))

\* State of the traversal: the reachable set, the queue, and the history of
\* pushes.
Bfs(reach, q, pushed) == [reachable |-> reach, queue |-> q, pushed |-> pushed]

\* VisitEdges with the membership test made against the reachable set as it
\* was when the iteration began.
VisitEdgesStale(edges, i, b) ==
    LET fresh == SelectSeq(edges, LAMBDA e : e.node \notin b.reachable)
        names == [k \in DOMAIN fresh |-> fresh[k].node]
    IN Bfs(b.reachable \cup Range(names), b.queue \o names, b.pushed \o names)

RECURSIVE VisitEdges(_, _, _)
\* The inner loops of one iteration: every edge target not yet reachable is
\* added to the reachable set and pushed on the queue.
VisitEdges(edges, i, b) ==
    IF i > Len(edges) THEN b
    ELSE IF edges[i].node \notin b.reachable
         THEN VisitEdges(edges, i + 1,
                         Bfs(b.reachable \cup {edges[i].node},
                             Append(b.queue, edges[i].node),
                             Append(b.pushed, edges[i].node)))
         ELSE VisitEdges(edges, i + 1, b)

\* Whether one iteration throws: the current name has a null entry in
\* connections, or one of its edges is null.
BfsThrows(wf, current) ==
    /\ HasConn(wf, current)
    /\ \/ ConnOf(wf, current).kind = "null"
       \/ \E k \in DOMAIN MainEdges(ConnOf(wf, current)) :
              MainEdges(ConnOf(wf, current))[k].isNull

\* BfsVisit following the first output slot only.
BfsVisitFirstSlot(wf, current, b) ==
    IF ~HasConn(wf, current) \/ ~ConnOf(wf, current).hasMain
    THEN b
    ELSE IF ConnOf(wf, current).main = <<>> THEN b
    ELSE VisitEdges(SlotEdges(<<Head(ConnOf(wf, current).main)>>, 1), 1, b)

\* One iteration of while (queue.length > 0), after current = queue.shift().
BfsVisit(wf, current, b) ==
    IF ~HasConn(wf, current) \/ ~ConnOf(wf, current).hasMain
    THEN b
    ELSE VisitEdges(MainEdges(ConnOf(wf, current)), 1, b)

RECURSIVE Unreachable(_, _, _, _)
\* unreachableNodes: the nodes that are neither triggers nor reachable.
Unreachable(nodes, triggers, reach, i) ==
    IF i > Len(nodes) THEN <<>>
    ELSE (IF NameOf(nodes[i]) \notin triggers /\ NameOf(nodes[i]) \notin reach
          THEN <<<<NameOf(nodes[i])>>>> ELSE <<>>)
         \o Unreachable(nodes, triggers, reach, i + 1)

ReachabilityCheck(R, f, wf, reach) ==
    LET un == Unreachable(wf.nodes, TriggerNames(wf), reach, 1)
    IN assert(R, un = <<>>, Label(f, "all non-trigger nodes are reachable", ""), un)

\* new Set(nodes of type splitInBatches, by name)
SplitNodes(wf) ==
    {NameOf(wf.nodes[i]) : i \in {k \in DOMAIN wf.nodes : HasType(wf.nodes[k], "splitInBatches")}}

RECURSIVE LiveTargets(_, _)
\* The targets of the edges of one slot that are not null.
LiveTargets(es, k) ==
    IF k > Len(es) THEN <<>>
    ELSE (IF es[k].isNull THEN <<>> ELSE <<<<es[k].node>>>>)
         \o LiveTargets(es, k + 1)

RECURSIVE FlatTargets(_, _)
\* conn.main.flat().filter(Boolean).map((c) => c.node): the targets of a loop
\* marker.  flat() keeps an entry of `main` that is no array, and
\* filter(Boolean) drops the null entries and null edges.
FlatTargets(main, i) ==
    IF i > Len(main) THEN <<>>
    ELSE (CASE main[i].kind = "array" -> LiveTargets(main[i].edges, 1)
            [] main[i].kind = "object" -> <<<<main[i].node>>>>
            [] OTHER -> <<>>)
         \o FlatTargets(main, i + 1)

RECURSIVE LoopBackChecks(_, _, _, _)
\* for (const lb of loopBackNodes): a marker without an entry in connections,
\* or whose entry has no `main`, is passed over (continue).
LoopBackChecks(R, f, wf, i) ==
    IF i > Len(wf.nodes) THEN R
    ELSE IF ~HasType(wf.nodes[i], "noOp") THEN LoopBackChecks(R, f, wf, i + 1)
    ELSE LET name == NameOf(wf.nodes[i])
         IN IF ~HasConn(wf, name) \/ ConnOf(wf, name).kind = "null"
               \/ ~ConnOf(wf, name).hasMain
            THEN LoopBackChecks(R, f, wf, i + 1)
            ELSE LET targets == FlatTargets(ConnOf(wf, name).main, 1)
                     connectsToSplit == \E k \in DOMAIN targets :
                                            targets[k][1] \in SplitNodes(wf)
                 IN LoopBackChecks(
                        assert(R, connectsToSplit,
                               Label(f, "loops back to a splitInBatches node", name),
                               targets),
                        f, wf, i + 1)

\* Source integrity (lines 264-289 of the loop body).
SourceIntegrity ==
    /\ sec = "graph"
    /\ fi <= NumFiles
    /\ ~Falsy(workflows[fi])
    /\ step = "sources"
    /\ LET res == SourceCheck(Rep, fi, workflows[fi])
       IN /\ Apply(res)
          /\ sec' = IF res.threw THEN "crashed" ELSE sec
          /\ step' = IF res.threw THEN step ELSE "targets"
    /\ UNCHANGED <<files, workflows, fi, ni, summary, reachable, queue,
                   enqueued, dequeued, mockShared, globalLeak, seen, scanner>>

\* Target integrity, then the traversal starts from the trigger set:
\* reachable = new Set(triggerNames), queue = [...triggerNames].
TargetIntegrity ==
    /\ sec = "graph"
    /\ fi <= NumFiles
    /\ step = "targets"
    /\ LET res == TargetCheck(Rep, fi, workflows[fi])
           triggers == TriggerSeq(workflows[fi].nodes, 1, <<>>)
       IN /\ Apply(res)
          /\ sec' = IF res.threw THEN "crashed" ELSE sec
          /\ step' = IF res.threw THEN step ELSE "bfs"
          /\ reachable' = IF res.threw THEN reachable ELSE Range(triggers)
          /\ queue' = IF res.threw THEN queue ELSE triggers
          /\ enqueued' = IF res.threw THEN enqueued ELSE triggers
          /\ dequeued' = IF res.threw THEN dequeued ELSE <<>>
    /\ UNCHANGED <<files, workflows, fi, ni, summary, mockShared, globalLeak,
                   seen, scanner>>

\* One iteration of the traversal's while loop.
BfsIteration ==
    /\ sec = "graph"
    /\ step = "bfs"
    /\ queue # <<>>
    /\ LET current == Head(queue)
           b == BfsVisit(workflows[fi], current, Bfs(reachable, Tail(queue), enqueued))
       IN IF BfsThrows(workflows[fi], current)
          THEN /\ sec' = "crashed"
               /\ exitStatus' = 1
               /\ UNCHANGED <<reachable, queue, enqueued, dequeued>>
          ELSE /\ reachable' = b.reachable
               /\ queue' = b.queue
               /\ enqueued' = b.pushed
               /\ dequeued' = Append(dequeued, current)
               /\ UNCHANGED <<sec, exitStatus>>
    /\ UNCHANGED <<files, workflows, fi, ni, step, passed, failed, failures,
                   out, summary, mockShared, globalLeak, seen, scanner>>

\* The queue is empty: the nodes not reached are reported.
Reachability ==
    /\ sec = "graph"
    /\ step = "bfs"
    /\ queue = <<>>
    /\ Apply(Ran(ReachabilityCheck(Rep, fi, workflows[fi], reachable)))
    /\ step' = "loopback"
    /\ UNCHANGED <<files, workflows, sec, fi, ni, summary, reachable, queue,
                   enqueued, dequeued, mockShared, globalLeak, seen, scanner>>

\* The loop over the loop markers; the document's iteration ends.
LoopBack ==
    /\ sec = "graph"
    /\ step = "loopback"
    /\ Apply(Ran(LoopBackChecks(Rep, fi, workflows[fi], 1)))
    /\ step' = "sources"
    /\ fi' = fi + 1
    /\ UNCHANGED <<files, workflows, sec, ni, summary, reachable, queue,
                   enqueued, dequeued, mockShared, globalLeak, seen, scanner>>

\* ------------------------------------------------------------------------
\* 3. Node Name References
\* ------------------------------------------------------------------------

\* A node name that holds double quotes, and what JSON.stringify makes of it
\* inside a string.
QuotedName == "Say \"hi\""

JsonEscape(str) == IF str = QuotedName THEN "Say \\\"hi\\\"" ELSE str

\* A pattern and a set declared once, outside the loop: each extraction goes
\* on from what the last one left behind.
HoistedScanner(left) == left

\* const refPattern = /\$\('([^']+)'\)/g and const allRefs = new Set(), both
\* inside the loop body: every extraction starts with a pattern whose
\* lastIndex is 0 and with an empty set, whatever the last one left behind.
NewScanner(left) == [lastIndex |-> 0, refs |-> <<>>]

\* allRefs.add(match[1]): a Set keeps the first insertion.
SetAdd(refs, name) == IF name \in Range(refs) THEN refs ELSE Append(refs, name)

RECURSIVE ScanLoop(_, _)
\* while ((match = refPattern.exec(text)) !== null) allRefs.add(match[1]).
\* `tokens` are the matches the text holds, in text order; exec resumes at
\* lastIndex, moves it behind the match it finds, and sets it to 0 when it
\* finds none.
ScanLoop(tokens, sc) ==
    IF sc.lastIndex >= Len(tokens) THEN [sc EXCEPT !.lastIndex = 0]
    ELSE ScanLoop(tokens, [lastIndex |-> sc.lastIndex + 1,
                           refs |-> SetAdd(sc.refs, tokens[sc.lastIndex + 1])])

RECURSIVE Escaped(_, _)
Escaped(s, i) ==
    IF i > Len(s) THEN <<>> ELSE <<JsonEscape(s[i])>> \o Escaped(s, i + 1)

\* The names the pattern /\$\('([^']+)'\)/g matches in the text of one node
\* inside JSON.stringify(wf): those of its parameters and of its request body.
NodeRefs(node) ==
    Escaped(node.refs \o (IF node.jsonBody.kind = "text" THEN node.jsonBody.refs
                          ELSE <<>>), 1)

RECURSIVE StringifiedRefs(_, _)
\* Every match of the pattern in JSON.stringify(wf), in text order.
StringifiedRefs(nodes, i) ==
    IF i > Len(nodes) THEN <<>>
    ELSE NodeRefs(nodes[i]) \o StringifiedRefs(nodes, i + 1)

RECURSIVE MissingRefs(_, _, _)
\* The references that are no node name.
MissingRefs(refs, names, i) ==
    IF i > Len(refs) THEN <<>>
    ELSE (IF refs[i] \notin names THEN <<<<refs[i]>>>> ELSE <<>>)
         \o MissingRefs(refs, names, i + 1)

ReferenceChecks(R, f, wf, left) ==
    IF wf.nodesKind # "array"
    THEN Threw(R)
    ELSE LET allRefs == ScanLoop(StringifiedRefs(wf.nodes, 1), NewScanner(left)).refs
             missing == MissingRefs(allRefs, NodeNames(wf), 1)
             R1 == assert(R, missing = <<>>,
                          Label(f, "all references point to existing nodes", ""),
                          missing)
         IN Ran(pass(R1, Label(f, "found node references, all valid",
                               ToString(Len(allRefs)))))

NodeNameReferences ==
    /\ sec = "refs"
    /\ fi <= NumFiles
    /\ ~Falsy(workflows[fi])
    /\ LET res == ReferenceChecks(Rep, fi, workflows[fi], scanner)
       IN /\ Apply(res)
          /\ sec' = IF res.threw THEN "crashed" ELSE sec
          /\ fi' = IF res.threw THEN fi ELSE fi + 1
          /\ scanner' = IF res.threw THEN scanner
                        ELSE ScanLoop(StringifiedRefs(workflows[fi].nodes, 1),
                                      NewScanner(scanner))
    /\ UNCHANGED <<files, workflows, ni, step, summary, reachable, queue,
                   enqueued, dequeued, mockShared, globalLeak, seen>>

\* ------------------------------------------------------------------------
\* 4. Code Node Execution
\* ------------------------------------------------------------------------

RECURSIVE NodesOfType(_, _, _)
\* wf.nodes.filter((n) => n.type === 'n8n-nodes-base.<kind>')
NodesOfType(nodes, kind, i) ==
    IF i > Len(nodes) THEN <<>>
    ELSE (IF HasType(nodes[i], kind) THEN <<nodes[i]>> ELSE <<>>)
         \o NodesOfType(nodes, kind, i + 1)

CodeNodes(wf) == NodesOfType(wf.nodes, "code", 1)

\* buildMockContext evaluates MOCK_CLAUDE_RESPONSE.content[0].text: it throws
\* once a script has replaced `content` in that module-level object.
BuildMockContextThrows(shared) == shared = "corrupted"

\* The own keys of mockNodeData whose value is an object, and those whose
\* value is an array (MOCK_EXISTING_LEADERS, one element).
ObjectFixtures ==
    {"SEC EDGAR Search 10-K", "Fetch 10-K Filing", "Parse EDGAR Results",
     "Claude Analysis", "Loop Over Companies", "SearXNG Company Search",
     "SearXNG Search IT Leaders", "Parse LinkedIn Results", "Format Results",
     "SEC EDGAR Check New Filings", "Claude Delta Analysis", "Format Weekly Delta",
     "Parse New Filings"}

ArrayFixtures == {"Read Existing Leaders"}

\* Property names that an object literal inherits from Object.prototype.
ObjectPrototype ==
    {"constructor", "toString", "valueOf", "hasOwnProperty", "__proto__"}

\* mockNodeData, an object literal: its own entries.
mockNodeData ==
    [n \in ObjectFixtures \cup ArrayFixtures |->
        IF n \in ArrayFixtures
        THEN [kind |-> "array", items |-> <<[kind |-> "element", of |-> n]>>]
        ELSE [kind |-> "object", items |-> <<>>]]

\* mockNodeData[nodeName]: the own entry, else what the prototype chain
\* holds under that name, else undefined.
GetData(nodeName) ==
    IF nodeName \in DOMAIN mockNodeData THEN mockNodeData[nodeName]
    ELSE IF nodeName \in ObjectPrototype THEN [kind |-> "inherited", items |-> <<>>]
    ELSE [kind |-> "undefined", items |-> <<>>]

\* function $(nodeName): the .item.json of what it returns: {} ("empty"),
\* the first element of an array entry, or the value found itself.
Dollar(nodeName) ==
    LET data == GetData(nodeName)
    IN CASE data.kind = "undefined" -> [kind |-> "empty", of |-> ""]
         [] data.kind = "array" ->
                IF data.items = <<>> THEN [kind |-> "empty", of |-> ""]
                ELSE data.items[1]
         [] OTHER -> [kind |-> data.kind, of |-> nodeName]

RECURSIVE Lookups(_, _)
\* What a script gets when it evaluates each of its $('...') tokens.
Lookups(refs, i) ==
    IF i > Len(refs) THEN <<>>
    ELSE <<[name |-> refs[i], json |-> Dollar(refs[i])]>> \o Lookups(refs, i + 1)

\* The scripts of the model, by what they do when run by fn($, $input, $json):
\*   retObj        return [{ json: $json }]
\*   retNull       no return statement
\*   throws        throw new Error(...)
\*   syntaxError   text that new Function rejects
\*   mutateLocal   writes a property of $json, returns a value
\*   mutateShared  writes $('Claude Analysis').item.json.summary, returns
\*   corruptShared sets $('Claude Analysis').item.json.content = null, returns
\*   corruptThrow  the same, then throws
\*   setGlobal     writes globalThis.leak, returns a value
\*   probe         throws if globalThis.leak is set or the Claude Analysis
\*                 fixture is not as defined, returns a value otherwise
\*   lookup        returns the $('...').item.json of each of its tokens
Scripts ==
    {"retObj", "retNull", "throws", "syntaxError", "mutateLocal", "mutateShared",
     "corruptShared", "corruptThrow", "setGlobal", "probe", "lookup"}

\* What the script does to the objects that outlive its execution: the
\* MOCK_* objects of the module (the by-name lookup hands them out
\* themselves) and the global object.
SharedAfter(script, shared) ==
    CASE script = "mutateShared" -> "modified"
      [] script \in {"corruptShared", "corruptThrow"} -> "corrupted"
      [] OTHER -> shared

LeakAfter(script, leak) == leak \/ script = "setGlobal"

\* How the call ends: "value", "nullish" (undefined or null) or "throws".
Outcome(script, shared, leak) ==
    CASE script \in {"throws", "syntaxError", "corruptThrow"} -> "throws"
      [] script = "retNull" -> "nullish"
      [] script = "probe" -> IF shared = "original" /\ ~leak THEN "value" ELSE "throws"
      [] OTHER -> "value"

\* The try / catch around new Function and the call.
ScriptResult(R, f, node, shared, leak) ==
    CASE Outcome(node.jsCode, shared, leak) = "throws" ->
             fail(R, Label(f, "executes without error", NameOf(node)),
                  <<<<"e.message">>>>)
      [] Outcome(node.jsCode, shared, leak) = "nullish" ->
             fail(R, Label(f, "returns a value", NameOf(node)),
                  <<<<"got undefined/null">>>>)
      [] OTHER ->
             pass(R, Label(f, "executes without error and returns", NameOf(node)))

\* One iteration of for (const node of codeNodes).
CodeNodeExecution ==
    /\ sec = "code"
    /\ fi <= NumFiles
    /\ ~Falsy(workflows[fi])
    /\ ni <= Len(CodeNodes(workflows[fi]))
    /\ LET node == CodeNodes(workflows[fi])[ni]
       IN IF node.jsCode = "absent"
          THEN /\ Apply(Ran(fail(Rep, Label(fi, "has jsCode", NameOf(node)), <<>>)))
               /\ ni' = ni + 1
               /\ UNCHANGED <<sec, mockShared, globalLeak, seen, scanner>>
          ELSE IF BuildMockContextThrows(mockShared)
          THEN /\ Apply(Threw(Rep))
               /\ sec' = "crashed"
               /\ UNCHANGED <<ni, mockShared, globalLeak, seen, scanner>>
          ELSE /\ Apply(Ran(ScriptResult(Rep, fi, node, mockShared, globalLeak)))
               /\ mockShared' = SharedAfter(node.jsCode, mockShared)
               /\ globalLeak' = LeakAfter(node.jsCode, globalLeak)
               /\ seen' = Append(seen, [file |-> fi, node |-> NameOf(node),
                                        shared |-> mockShared, leak |-> globalLeak,
                                        lookups |-> IF node.jsCode = "lookup"
                                                    THEN Lookups(node.refs, 1)
                                                    ELSE <<>>])
               /\ ni' = ni + 1
               /\ UNCHANGED <<sec, scanner>>
    /\ UNCHANGED <<files, workflows, fi, step, summary, reachable, queue,
                   enqueued, dequeued>>

\* ------------------------------------------------------------------------
\* 5. Claude Request Validation
\* ------------------------------------------------------------------------

RECURSIVE ClaudeNodesFrom(_, _)
\* httpRequest nodes whose url is the messages endpoint and method is POST.
ClaudeNodesFrom(nodes, i) ==
    IF i > Len(nodes) THEN <<>>
    ELSE (IF HasType(nodes[i], "httpRequest") /\ nodes[i].url = CLAUDE_URL
             /\ nodes[i].method = "POST"
          THEN <<nodes[i]>> ELSE <<>>)
         \o ClaudeNodesFrom(nodes, i + 1)

ClaudeNodes(wf) == ClaudeNodesFrom(wf.nodes, 1)

\* if (bodyStr.startsWith('=')) bodyStr = bodyStr.slice(1)
StripLead(body) == [body EXCEPT !.lead = FALSE]

\* bodyStr.replace(/\{\{[^}]+\}\}/g, '__EXPRESSION__'): an expression that
\* holds a closing brace of its own is not matched and stays in the text.
ReplaceExpressions(body) == [body EXCEPT !.exprs = @ \cap {"braced"}]

\* JSON.parse(bodyStr) returns: no leading "=", no expression left that
\* breaks a JSON string, and the rest is JSON.
Parses(text) == ~text.lead /\ text.exprs = {} /\ text.json # "malformed"

\* bodyObj.<field>, undefined when bodyObj is no object.
ModelOf(text) == IF text.json = "object" THEN text.model ELSE "undefined"

MaxTokensOf(text) ==
    IF text.json = "object" THEN text.max_tokens ELSE [isNum |-> FALSE, n |-> 0]

SystemOf(text) == IF text.json = "object" THEN text.system ELSE "undefined"

MessagesOf(text) ==
    IF text.json = "object" THEN text.messages ELSE Messages("undefined", <<>>)

\* The four required-field asserts.
FieldAsserts(R, f, name, text) ==
    LET R1 == assert(R, ModelOf(text) = "string", Label(f, "has model field", name),
                     <<<<"got", ModelOf(text)>>>>)
        R2 == assert(R1, MaxTokensOf(text).isNum /\ MaxTokensOf(text).n > 0,
                     Label(f, "has valid max_tokens", name),
                     <<<<"got", ToString(MaxTokensOf(text).n)>>>>)
        R3 == assert(R2, SystemOf(text) = "string", Label(f, "has system prompt", name),
                     <<>>)
    IN assert(R3, MessagesOf(text).kind = "array" /\ Len(MessagesOf(text).items) > 0,
              Label(f, "has messages array", name), <<>>)

RECURSIVE MessageAsserts(_, _, _, _, _)
\* for (i = 0; i < bodyObj.messages.length; i++) assert(msg.role && msg.content):
\* reading .length of undefined or null, or .role of a null entry, throws.
MessageAsserts(R, f, name, msgs, i) ==
    IF msgs.kind \in {"undefined", "null"} THEN Threw(R)
    ELSE IF msgs.kind = "number" \/ i > Len(msgs.items) THEN Ran(R)
    ELSE IF msgs.items[i].isNull THEN Threw(R)
    ELSE MessageAsserts(
             assert(R, msgs.items[i].role /\ msgs.items[i].content,
                    Label(f, "message has role and content", name), <<>>),
             f, name, msgs, i + 1)

\* The body of try { ... } catch (e) { fail(... parses as valid JSON ...) }
\* for one node with a jsonBody string.
BodyChecks(R, f, wf, node, left) ==
    LET name == NameOf(node)
        text == ReplaceExpressions(StripLead(node.jsonBody))
        parseFail(Q) == fail(Q, Label(f, "jsonBody parses as valid JSON", name),
                             <<<<"e.message">>>>)
    IN IF ~Parses(text) THEN parseFail(R)
       ELSE IF text.json = "null" THEN parseFail(R)   \* bodyObj.model of null
       ELSE LET R4 == FieldAsserts(R, f, name, text)
                M == MessageAsserts(R4, f, name, MessagesOf(text), 1)
                promptRefs == ScanLoop(node.jsonBody.refs, NewScanner(left)).refs
                missing == MissingRefs(promptRefs, NodeNames(wf), 1)
            IN IF M.threw THEN parseFail(M.R)
               ELSE pass(assert(M.R, missing = <<>>,
                                Label(f, "prompt node references are valid", name),
                                missing),
                         Label(f, "JSON body is structurally valid", name))

\* The try block gets as far as the reference extraction of lines 607-615:
\* the text parses and nothing before the extraction throws.
ReachesExtraction(node) ==
    LET text == ReplaceExpressions(StripLead(node.jsonBody))
    IN /\ node.jsonBody.kind = "text"
       /\ Parses(text)
       /\ text.json # "null"
       /\ ~MessageAsserts(Rep, 0, "", MessagesOf(text), 1).threw

\* One iteration of for (const node of claudeNodes).
ClaudeRequestValidation ==
    /\ sec = "claude"
    /\ fi <= NumFiles
    /\ ~Falsy(workflows[fi])
    /\ ni <= Len(ClaudeNodes(workflows[fi]))
    /\ LET node == ClaudeNodes(workflows[fi])[ni]
           res == CASE node.jsonBody.kind = "absent" ->
                           Ran(fail(Rep, Label(fi, "has jsonBody", NameOf(node)), <<>>))
                    [] node.jsonBody.kind = "nonString" ->
                           Threw(Rep)   \* bodyStr.startsWith is not a function
                    [] OTHER -> Ran(BodyChecks(Rep, fi, workflows[fi], node, scanner))
       IN /\ Apply(res)
          /\ sec' = IF res.threw THEN "crashed" ELSE sec
          /\ ni' = IF res.threw THEN ni ELSE ni + 1
          /\ scanner' = IF ReachesExtraction(node)
                        THEN ScanLoop(node.jsonBody.refs, NewScanner(scanner))
                        ELSE scanner
    /\ UNCHANGED <<files, workflows, fi, step, summary, reachable, queue,
                   enqueued, dequeued, mockShared, globalLeak, seen>>

\* The per-node loop of section 4 or 5 has ended for this document.
EndOfNodes ==
    /\ sec \in {"code", "claude"}
    /\ fi <= NumFiles
    /\ ~Falsy(workflows[fi])
    /\ ni > Len(IF sec = "code" THEN CodeNodes(workflows[fi])
                ELSE ClaudeNodes(workflows[fi]))
    /\ fi' = fi + 1
    /\ ni' = 1
    /\ UNCHANGED <<files, workflows, sec, step, passed, failed, failures, out,
                   summary, exitStatus, reachable, queue, enqueued, dequeued,
                   mockShared, globalLeak, seen, scanner>>

\* ------------------------------------------------------------------------
\* The run
\* ------------------------------------------------------------------------

Next ==
    \/ LoadFile
    \/ Section
    \/ SkipDocument
    \/ SchemaValidation
    \/ SourceIntegrity
    \/ TargetIntegrity
    \/ BfsIteration
    \/ Reachability
    \/ LoopBack
    \/ NodeNameReferences
    \/ CodeNodeExecution
    \/ ClaudeRequestValidation
    \/ EndOfNodes
    \/ Report

\* The state when the script starts, whatever the two files hold.
Start(contents) ==
    /\ files = contents
    /\ workflows = [i \in 1..NumFiles |-> Scalar("unset")]
    /\ sec = "load"
    /\ fi = 1
    /\ ni = 1
    /\ step = "sources"
    /\ passed = 0
    /\ failed = 0
    /\ failures = <<>>
    /\ out = <<>>
    /\ summary = FALSE
    /\ exitStatus = -1
    /\ reachable = {}
    /\ queue = <<>>
    /\ enqueued = <<>>
    /\ dequeued = <<>>
    /\ mockShared = "original"
    /\ globalLeak = FALSE
    /\ seen = <<>>
    /\ scanner = [lastIndex |-> 0, refs |-> <<>>]

\* ------------------------------------------------------------------------
\* Input documents: a trigger A, two code nodes B and B2, a Claude request
\* node C, chained A -> B -> B2 -> C, varied one aspect at a time
\* ------------------------------------------------------------------------

OkMessages == Messages("array", <<Msg(TRUE, TRUE)>>)

Tokens(n) == [isNum |-> TRUE, n |-> n]

OkBody ==
    Body("text", TRUE, {"plain", "quoted"}, "object", "string", Tokens(1024),
         "string", OkMessages, <<"A", "B">>)

\* Request bodies whose four required fields are valid or not, in every
\* combination.
FieldBodies ==
    {[OkBody EXCEPT !.model = m, !.max_tokens = t, !.system = y, !.messages = g] :
        m \in {"string", "empty"}, t \in {Tokens(1024), Tokens(0)},
        y \in {"string", "undefined"},
        g \in {OkMessages, Messages("array", <<>>)}}

\* Request bodies that are absent, no string, not parseable, or parse to
\* something other than the expected object.
OddBodies ==
    {NoBody,
     [OkBody EXCEPT !.kind = "nonString"],
     [OkBody EXCEPT !.lead = FALSE],
     [OkBody EXCEPT !.exprs = {"braced"}],
     [OkBody EXCEPT !.json = "malformed"],
     [OkBody EXCEPT !.json = "null"],
     [OkBody EXCEPT !.json = "number"],
     [OkBody EXCEPT !.model = "undefined"],
     [OkBody EXCEPT !.model = "number"],
     [OkBody EXCEPT !.max_tokens = Tokens(-1)],
     [OkBody EXCEPT !.max_tokens = [isNum |-> FALSE, n |-> 1024]],
     [OkBody EXCEPT !.system = "empty"],
     [OkBody EXCEPT !.messages = Messages("undefined", <<>>)],
     [OkBody EXCEPT !.messages = Messages("null", <<>>)],
     [OkBody EXCEPT !.messages = Messages("number", <<>>)],
     [OkBody EXCEPT !.messages = Messages("string", <<Msg(FALSE, FALSE)>>)],
     [OkBody EXCEPT !.messages = Messages("array", <<Msg(TRUE, FALSE)>>)],
     [OkBody EXCEPT !.messages = Messages("array", <<Msg(TRUE, TRUE), NullMsg>>)],
     [OkBody EXCEPT !.refs = <<"A", "Z", "A">>]}

Chain == <<Conn("A", Outputs(<<Slot(<<Edge("B")>>)>>)),
           Conn("B", Outputs(<<Slot(<<Edge("B2")>>)>>)),
           Conn("B2", Outputs(<<Slot(<<Edge("C")>>)>>))>>

ChainNodes(s1, s2, body) ==
    <<PlainNode("A", "manualTrigger"), CodeNode("B", s1, <<"A">>),
      CodeNode("B2", s2, <<>>), ClaudeNode("C", body)>>

BaseDoc == Doc({"name", "settings"}, "array", ChainNodes("retObj", "retObj", OkBody),
               "object", Chain)

\* Documents that differ from BaseDoc in their scripts.
ScriptDocs ==
    {[BaseDoc EXCEPT !.nodes = ChainNodes(s1, s2, OkBody)] :
        s1 \in Scripts \cup {"absent"}, s2 \in {"retObj", "retNull", "throws", "probe"}}

\* Documents that differ from BaseDoc in the request body of C.
BodyDocs ==
    {[BaseDoc EXCEPT !.nodes = ChainNodes("retObj", "retObj", b)] :
        b \in FieldBodies \cup OddBodies}

\* Documents that differ from BaseDoc in shape.
ShapeDocs ==
    {[BaseDoc EXCEPT !.top = {}],
     [BaseDoc EXCEPT !.nodesKind = "undefined", !.nodes = <<>>],
     [BaseDoc EXCEPT !.nodesKind = "object", !.nodes = <<>>],
     [BaseDoc EXCEPT !.connKind = "null", !.connections = <<>>],
     [BaseDoc EXCEPT !.connKind = "undefined", !.connections = <<>>],
     [BaseDoc EXCEPT !.connKind = "array", !.connections = <<Conn("0", NoMain)>>],
     [BaseDoc EXCEPT !.connections = Chain \o <<Conn("C", NullOutputs)>>],
     [BaseDoc EXCEPT !.connections[3] = Conn("B2", Outputs(<<Slot(<<Edge("C"), NullEdge>>)>>))],
     [BaseDoc EXCEPT !.connections[3] = Conn("B2", Outputs(<<NullSlot, Slot(<<Edge("C")>>)>>))],
     [BaseDoc EXCEPT !.connections = SubSeq(Chain, 1, 2)],
     [BaseDoc EXCEPT !.connections[3] = Conn("B2", Outputs(<<Slot(<<Edge("C"), Edge("Z")>>)>>))],
     [BaseDoc EXCEPT !.connections = Chain \o <<Conn("Z", Outputs(<<Slot(<<Edge("A")>>)>>))>>],
     [BaseDoc EXCEPT !.nodes[2] = CodeNode("B", "retObj", <<"A", "Z">>)],
     [BaseDoc EXCEPT !.nodes[2] = CodeNode("B", "lookup",
                                           <<"Claude Analysis", "Read Existing Leaders",
                                             "A">>)],
     [BaseDoc EXCEPT !.nodes[2] = CodeNode("B", "lookup", <<"constructor">>)],
     [BaseDoc EXCEPT !.nodes[1] = PlainNode(QuotedName, "manualTrigger"),
                     !.nodes[2] = CodeNode("B", "retObj", <<QuotedName>>),
                     !.connections[1] = Conn(QuotedName, Outputs(<<Slot(<<Edge("B")>>)>>))],
     [BaseDoc EXCEPT !.nodes[3] = [PlainNode("B2", "noOp") EXCEPT
                                       !.missing = {"id"}, !.position = "wrongLength",
                                       !.type = Type("custom", "noOp")]]}

Documents == ScriptDocs \cup BodyDocs \cup ShapeDocs

FileContents == {Unparsable, Parsable(Scalar("falsy"))} \cup {Parsable(d) : d \in Documents}

Init == \E c \in [1..NumFiles -> FileContents] : Start(c)

Spec == Init /\ [][Next]_vars

\* ------------------------------------------------------------------------
\* Input documents: every connection graph of at most MaxEdges edges over the
\* nodes A, B, C and the name X that is no node
\* ------------------------------------------------------------------------

MaxEdges == 2

GraphNames == <<"A", "B", "C", "X">>

EdgeSets ==
    {E \in SUBSET (Range(GraphNames) \X Range(GraphNames)) : Cardinality(E) <= MaxEdges}

RECURSIVE TargetsIn(_, _, _)
\* The edges leaving src in E, in the order of GraphNames.
TargetsIn(E, src, i) ==
    IF i > Len(GraphNames) THEN <<>>
    ELSE (IF <<src, GraphNames[i]>> \in E THEN <<Edge(GraphNames[i])>> ELSE <<>>)
         \o TargetsIn(E, src, i + 1)

RECURSIVE OneSlotEach(_, _)
OneSlotEach(edges, i) ==
    IF i > Len(edges) THEN <<>> ELSE <<Slot(<<edges[i]>>)>> \o OneSlotEach(edges, i + 1)

\* How the edges of one source are laid out in its `main`, and what a node
\* without outgoing edges has in `connections`:
\*   compact  one slot holding all edges;      no entry
\*   ports    one slot per edge;                an entry without `main`
\*   padded   an empty slot, the edges, a null slot;  an entry with main: []
\*   doubled  one slot holding every edge twice;      an entry with main: [[]]
Layouts == {"compact", "ports", "padded", "doubled"}

MainFor(layout, edges) ==
    CASE layout = "compact" -> <<Slot(edges)>>
      [] layout = "ports" -> OneSlotEach(edges, 1)
      [] layout = "padded" -> <<Slot(<<>>), Slot(edges), NullSlot>>
      [] OTHER -> <<Slot(edges \o edges)>>

RECURSIVE ConnectionsFor(_, _, _)
ConnectionsFor(E, layout, i) ==
    IF i > Len(GraphNames) THEN <<>>
    ELSE LET src == GraphNames[i]
             edges == TargetsIn(E, src, 1)
         IN (IF edges # <<>> THEN <<Conn(src, Outputs(MainFor(layout, edges)))>>
             ELSE IF src = "X" \/ layout = "compact" THEN <<>>
             ELSE IF layout = "ports" THEN <<Conn(src, NoMain)>>
             ELSE IF layout = "padded" THEN <<Conn(src, Outputs(<<>>))>>
             ELSE <<Conn(src, Outputs(<<Slot(<<>>)>>))>>)
            \o ConnectionsFor(E, layout, i + 1)

GraphDocs ==
    {Doc({"name", "settings"}, "array",
         <<PlainNode("A", a), PlainNode("B", b), PlainNode("C", c)>>,
         "object", ConnectionsFor(E, layout, 1)) :
        a \in {"manualTrigger", "googleSheetsTrigger", "set"},
        b \in {"scheduleTrigger", "noOp", "set"},
        c \in {"noOp", "splitInBatches"},
        E \in EdgeSets, layout \in Layouts}

\* The first file holds a graph document; the second cannot be read, or (for
\* one graph) is the chain document.
InitGraph ==
    \E g \in GraphDocs, second \in {Unparsable, Parsable(BaseDoc)} :
        /\ second = Unparsable \/ g.connections = <<>>
        /\ Start([i \in 1..NumFiles |-> IF i = 1 THEN Parsable(g) ELSE second])

SpecGraph == InitGraph /\ [][Next]_vars

\* ------------------------------------------------------------------------
\* Vocabulary of the properties
\* ------------------------------------------------------------------------

\* The process has ended, through the reporter or through an exception.
Ended == sec \in {"exited", "crashed"}

\* The indices of the result lines about `check` for file f (and node n).
Lines(f, check) ==
    {i \in DOMAIN out : out[i].label.file = f /\ out[i].label.check = check}

NodeLines(f, check, n) == {i \in Lines(f, check) : out[i].label.node = n}

\* The document was loaded: the file parsed to an object.
Loaded(f) == workflows[f].kind = "object"

\* The directed graph of a document, read off its `connections`: an edge
\* src -> target for every edge object in every output slot of src.
EdgeRelation(wf) ==
    UNION {UNION {{<<wf.connections[i].key, wf.connections[i].outputs.main[j].edges[k].node>> :
                      k \in {x \in DOMAIN wf.connections[i].outputs.main[j].edges :
                                ~wf.connections[i].outputs.main[j].edges[x].isNull}} :
                  j \in {y \in DOMAIN wf.connections[i].outputs.main :
                            wf.connections[i].outputs.main[y].kind = "array"}} :
           i \in {z \in DOMAIN wf.connections : wf.connections[z].outputs.hasMain}}

RECURSIVE Closure(_, _)
\* The names reachable from S along the edges of Rel (least fixed point).
Closure(S, Rel) ==
    LET N == S \cup {e[2] : e \in {d \in Rel : d[1] \in S}}
    IN IF N = S THEN S ELSE Closure(N, Rel)

NamesOfKind(wf, kinds) ==
    {wf.nodes[i].name : i \in {k \in DOMAIN wf.nodes :
                                  /\ wf.nodes[k].type.ns = "n8n-nodes-base"
                                  /\ wf.nodes[k].type.kind \in kinds}}

AllNames(wf) == {wf.nodes[i].name : i \in DOMAIN wf.nodes}

TriggerSet(wf) ==
    NamesOfKind(wf, {"manualTrigger", "googleSheetsTrigger", "scheduleTrigger"})

\* The non-trigger nodes no path from a trigger leads to.
Orphans(wf) == (AllNames(wf) \ TriggerSet(wf)) \ Closure(TriggerSet(wf), EdgeRelation(wf))

\* ------------------------------------------------------------------------
\* C1
\* ------------------------------------------------------------------------

\* C1: when the run ends, the exit status is 0 if no check recorded a
\* failure (failed = 0) and 1 otherwise.
C1_ExitStatusIffNoFailure ==
    Ended => (exitStatus = 0 <=> failed = 0) /\ exitStatus \in {0, 1}

\* ------------------------------------------------------------------------
\* C2
\* ------------------------------------------------------------------------

\* C2: every recorded reachability result passes iff every non-trigger node
\* is reachable from the trigger set along connection edges, a failing one
\* names exactly the unreachable non-trigger nodes (each once), and a
\* document whose graph section has reached the loop markers has exactly one
\* such result.
C2_ReachabilityExact ==
    /\ \A i \in DOMAIN out :
           out[i].label.check = "all non-trigger nodes are reachable" =>
               LET un == Orphans(workflows[out[i].label.file])
               IN /\ out[i].ok <=> un = {}
                  /\ ~out[i].ok => /\ Range(out[i].detail) = {<<n>> : n \in un}
                                   /\ Len(out[i].detail) = Cardinality(un)
    /\ (sec = "graph" /\ step = "loopback") =>
           Cardinality(Lines(fi, "all non-trigger nodes are reachable")) = 1

\* A failed reachability result for a document in which a trigger reaches a
\* non-trigger node through a name that is no node, and another node is
\* orphaned.
C2_Witness ==
    \E i \in DOMAIN out :
        /\ out[i].label.check = "all non-trigger nodes are reachable"
        /\ ~out[i].ok
        /\ LET wf == workflows[out[i].label.file]
           IN /\ TriggerSet(wf) # {}
              /\ "X" \in Closure(TriggerSet(wf), EdgeRelation(wf))
              /\ Closure(TriggerSet(wf), EdgeRelation(wf)) \cap (AllNames(wf) \ TriggerSet(wf)) # {}

\* ------------------------------------------------------------------------
\* C3
\* ------------------------------------------------------------------------

InTraversal == sec = "graph" /\ step = "bfs"

\* What holds of the traversal at every moment: no name is pushed twice or
\* shifted twice, the names pushed are exactly the reachable set, what is
\* shifted was pushed, the queue is what was pushed and not yet shifted, and
\* once the queue is empty every name reachable from the trigger set was
\* pushed and shifted.
TraversalOnce ==
    (sec = "graph" /\ step \in {"bfs", "loopback"}) =>
        /\ NoDup(enqueued)
        /\ NoDup(dequeued)
        /\ Range(enqueued) = reachable
        /\ enqueued = dequeued \o queue
        /\ queue = <<>> =>
               Range(dequeued) = Closure(TriggerSet(workflows[fi]),
                                         EdgeRelation(workflows[fi]))

\* C3: the traversal visits every name reachable from the trigger set
\* exactly once, and it terminates: a traversal under way always comes to its
\* end.
C3_TraversalTerminatesOnce == [](TraversalOnce) /\ (InTraversal ~> ~InTraversal)

\* A finished traversal that went round a cycle: two shifted names have edges
\* to each other.
C3_Witness ==
    /\ sec = "graph"
    /\ step = "loopback"
    /\ \E i, j \in DOMAIN dequeued :
           /\ i < j
           /\ <<dequeued[i], dequeued[j]>> \in EdgeRelation(workflows[fi])
           /\ <<dequeued[j], dequeued[i]>> \in EdgeRelation(workflows[fi])

\* The traversal tells nodes apart only by whether they are triggers: the
\* graphs in which B is a trigger or a plain node and C is a plain marker.
TraversalDocs ==
    {g \in GraphDocs : g.nodes[2].type.kind # "noOp" /\ g.nodes[3].type.kind = "noOp"}

InitTraversal ==
    \E g \in TraversalDocs, second \in {Unparsable, Parsable(BaseDoc)} :
        /\ second = Unparsable \/ g.connections = <<>>
        /\ Start([i \in 1..NumFiles |-> IF i = 1 THEN Parsable(g) ELSE second])

\* The script is one synchronous run: it takes its next step as long as it
\* has one.
FairSpecGraph == InitTraversal /\ [][Next]_vars /\ WF_vars(Next)


\* ------------------------------------------------------------------------
\* C4
\* ------------------------------------------------------------------------

\* The keys of `connections` that are no node name, and the edges whose
\* target is no node name.
GhostSources(wf) ==
    {wf.connections[i].key : i \in DOMAIN wf.connections} \ AllNames(wf)

DanglingEdges(wf) == {e \in EdgeRelation(wf) : e[2] \notin AllNames(wf)}

\* C4: a recorded source-integrity result passes iff every key of
\* `connections` is a node name, a recorded target-integrity result passes
\* iff every edge target is a node name, a failing one has a non-empty detail
\* that lists exactly the offending sources (edges: source and target), and
\* the two are separate results: a document past both checks has one of each.
C4_IntegrityExact ==
    /\ \A i \in DOMAIN out :
           LET wf == workflows[out[i].label.file]
           IN /\ out[i].label.check = "all connection source nodes exist" =>
                     /\ out[i].ok <=> GhostSources(wf) = {}
                     /\ ~out[i].ok =>
                            /\ out[i].detail # <<>>
                            /\ Range(out[i].detail) = {<<k>> : k \in GhostSources(wf)}
              /\ out[i].label.check = "all connection target nodes exist" =>
                     /\ out[i].ok <=> DanglingEdges(wf) = {}
                     /\ ~out[i].ok =>
                            /\ out[i].detail # <<>>
                            /\ Range(out[i].detail) = DanglingEdges(wf)
    /\ (sec = "graph" /\ step \in {"bfs", "loopback"}) =>
           /\ Cardinality(Lines(fi, "all connection source nodes exist")) = 1
           /\ Cardinality(Lines(fi, "all connection target nodes exist")) = 1

\* One document fails the source check and passes the target check.
C4_Witness ==
    \E i, j \in DOMAIN out :
        /\ out[i].label.file = out[j].label.file
        /\ out[i].label.check = "all connection source nodes exist"
        /\ ~out[i].ok
        /\ out[j].label.check = "all connection target nodes exist"
        /\ out[j].ok
        /\ EdgeRelation(workflows[out[i].label.file]) # {}

\* ------------------------------------------------------------------------
\* C5
\* ------------------------------------------------------------------------

\* The graph section has finished with file f.
GraphDone(f) ==
    \/ sec \in {"refs", "code", "claude", "report", "exited"}
    \/ sec = "graph" /\ fi > f

\* C5: once the graph section has finished with a loaded document, every
\* noOp node of it has exactly one loop-back result, which passes iff one of
\* the node's outgoing edges targets a splitInBatches node.
C5_LoopMarkerAlwaysJudged ==
    \A f \in 1..NumFiles :
        (Loaded(f) /\ GraphDone(f)) =>
            \A n \in NamesOfKind(workflows[f], {"noOp"}) :
                /\ Cardinality(NodeLines(f, "loops back to a splitInBatches node", n)) = 1
                /\ \A i \in NodeLines(f, "loops back to a splitInBatches node", n) :
                       out[i].ok <=>
                           \E e \in EdgeRelation(workflows[f]) :
                               /\ e[1] = n
                               /\ e[2] \in NamesOfKind(workflows[f], {"splitInBatches"})

\* ------------------------------------------------------------------------
\* C6
\* ------------------------------------------------------------------------

\* C6: whatever the shape of the documents that parse, the process ends only
\* through the reporter, after the summary: no error raised inside a check
\* ends the run.
C6_RunEndsThroughReporter == Ended => (summary /\ sec = "exited")

\* ------------------------------------------------------------------------
\* C7
\* ------------------------------------------------------------------------

FileLines(f) == {i \in DOMAIN out : out[i].label.file = f}

\* C7: at the end of a run that reached the reporter, a file that failed to
\* parse has exactly one result, a failure, and every file that parsed has
\* been through the schema, graph and reference checks.
C7_DocumentsIndependent ==
    sec = "exited" =>
        \A f \in 1..NumFiles :
            IF files[f].parses
            THEN /\ Lines(f, "all nodes have required fields and valid structure") # {}
                 /\ Lines(f, "all connection source nodes exist") # {}
                 /\ Lines(f, "all non-trigger nodes are reachable") # {}
                 /\ Lines(f, "all references point to existing nodes") # {}
            ELSE /\ Cardinality(FileLines(f)) = 1
                 /\ \A i \in FileLines(f) :
                        ~out[i].ok /\ out[i].label.check = "parses as valid JSON"

\* ------------------------------------------------------------------------
\* C8
\* ------------------------------------------------------------------------

\* The result lines of section 4 about node n of file f.
ScriptLines(f, n) ==
    NodeLines(f, "has jsCode", n) \cup NodeLines(f, "executes without error", n)
    \cup NodeLines(f, "returns a value", n)
    \cup NodeLines(f, "executes without error and returns", n)

SomeScriptFailed ==
    \E f \in 1..NumFiles, i \in DOMAIN out :
        /\ out[i].label.file = f
        /\ ~out[i].ok
        /\ out[i].label.check \in {"has jsCode", "executes without error", "returns a value"}

\* C8: when the run has ended and a script node has failed, every code node
\* of every loaded document still has exactly one result.
C8_ScriptFailureStaysLocal ==
    (Ended /\ SomeScriptFailed) =>
        \A f \in 1..NumFiles :
            Loaded(f) =>
                \A k \in DOMAIN workflows[f].nodes :
                    workflows[f].nodes[k].type = [ns |-> "n8n-nodes-base", kind |-> "code"] =>
                        Cardinality(ScriptLines(f, workflows[f].nodes[k].name)) = 1

\* ------------------------------------------------------------------------
\* C9
\* ------------------------------------------------------------------------

\* C9: every script execution of a run observes the fixture objects and the
\* global object as the first one did.
C9_ScriptsIsolated ==
    \A i \in DOMAIN seen :
        seen[i].shared = seen[1].shared /\ seen[i].leak = seen[1].leak

\* ------------------------------------------------------------------------
\* C10
\* ------------------------------------------------------------------------

FieldChecks ==
    {"has model field", "has valid max_tokens", "has system prompt", "has messages array"}

\* C10: at the end of a run that reached the reporter, every Claude request
\* node whose de-templated body parses has exactly one result for each of
\* the four required-field checks.
C10_FieldChecksAllRecorded ==
    sec = "exited" =>
        \A f \in 1..NumFiles :
            Loaded(f) =>
                \A k \in DOMAIN workflows[f].nodes :
                    LET node == workflows[f].nodes[k]
                    IN (/\ node.type = [ns |-> "n8n-nodes-base", kind |-> "httpRequest"]
                        /\ node.url = "https://api.anthropic.com/v1/messages"
                        /\ node.method = "POST"
                        /\ node.jsonBody.kind = "text"
                        /\ Parses(ReplaceExpressions(StripLead(node.jsonBody)))) =>
                           \A c \in FieldChecks :
                               Cardinality(NodeLines(f, c, node.name)) = 1

\* ------------------------------------------------------------------------
\* C11
\* ------------------------------------------------------------------------

\* The node is a Claude request node that carries a body text.
IsBodyNode(node) ==
    /\ node.type = [ns |-> "n8n-nodes-base", kind |-> "httpRequest"]
    /\ node.url = "https://api.anthropic.com/v1/messages"
    /\ node.method = "POST"
    /\ node.jsonBody.kind = "text"

\* C11: at the end of a run that reached the reporter, a Claude request node
\* with a body text has a parse-failure result iff its de-templated text
\* does not parse, and if the text parses it has the result of the reference
\* check over its templated text.
C11_ParseFailureIffUnparsable ==
    sec = "exited" =>
        \A f \in 1..NumFiles :
            Loaded(f) =>
                \A k \in DOMAIN workflows[f].nodes :
                    LET node == workflows[f].nodes[k]
                        parses == Parses(ReplaceExpressions(StripLead(node.jsonBody)))
                    IN IsBodyNode(node) =>
                           /\ (NodeLines(f, "jsonBody parses as valid JSON", node.name) # {})
                                  <=> ~parses
                           /\ parses =>
                                  Cardinality(NodeLines(f, "prompt node references are valid",
                                                        node.name)) = 1

\* ------------------------------------------------------------------------
\* C12
\* ------------------------------------------------------------------------

\* The names inside the $('...') tokens of a document as written: in the
\* parameter strings of its nodes and in their request bodies.
DocRefs(wf) ==
    UNION {Range(wf.nodes[k].refs)
           \cup (IF wf.nodes[k].jsonBody.kind = "text"
                 THEN Range(wf.nodes[k].jsonBody.refs) ELSE {}) : k \in DOMAIN wf.nodes}

Unresolved(wf) == DocRefs(wf) \ {wf.nodes[k].name : k \in DOMAIN wf.nodes}

\* C12: the whole-document reference check of a loaded document passes iff
\* every name referenced in the document is a node name of it, its failure
\* lists exactly the unresolved names, and the count of distinct references
\* is reported with it.
C12_ReferenceCheckExact ==
    \A f \in 1..NumFiles :
        \A i \in Lines(f, "all references point to existing nodes") :
            /\ out[i].ok <=> Unresolved(workflows[f]) = {}
            /\ ~out[i].ok =>
                   /\ {d[1] : d \in Range(out[i].detail)} = Unresolved(workflows[f])
                   /\ Len(out[i].detail) = Cardinality(Unresolved(workflows[f]))
            /\ \E j \in Lines(f, "found node references, all valid") :
                   /\ j = i + 1
                   /\ out[j].label.node = ToString(Cardinality(DocRefs(workflows[f])))

\* ------------------------------------------------------------------------
\* C13
\* ------------------------------------------------------------------------

\* The schema section has finished with file f, or the process has ended.
SchemaDone(f) ==
    \/ sec \in {"graph", "refs", "code", "claude", "report"}
    \/ sec = "schema" /\ fi > f
    \/ Ended

\* The violations of one node: the required keys it lacks, a position that
\* is no pair of numbers, a type without the prefix.
Violations(node) ==
    {<<"missing", key>> : key \in node.missing \cap {"id", "name", "type", "position"}}
    \cup (IF "position" \in node.missing \/ node.position # "pair"
          THEN {<<"invalid position">>} ELSE {})
    \cup (IF "type" \notin node.missing /\ node.type.ns # "n8n-nodes-base"
          THEN {<<"type missing prefix">>} ELSE {})

\* The number of violations of the nodes k..Len(nodes).
RECURSIVE CountViolations(_, _)
CountViolations(nodes, k) ==
    IF k > Len(nodes) THEN 0
    ELSE Cardinality(Violations(nodes[k])) + CountViolations(nodes, k + 1)

\* C13: once the schema section is through with a loaded document, the
\* document has exactly one aggregated node-structure result; it passes iff
\* no node has a violation, and a failure carries one detail entry for every
\* violation of every node.
C13_SchemaAggregates ==
    \A f \in 1..NumFiles :
        (Loaded(f) /\ SchemaDone(f)) =>
            LET agg == Lines(f, "all nodes have required fields and valid structure")
                nodes == workflows[f].nodes
            IN /\ Cardinality(agg) = 1
               /\ \A i \in agg :
                      /\ out[i].ok <=> CountViolations(nodes, 1) = 0
                      /\ Len(out[i].detail) = CountViolations(nodes, 1)
                      /\ \A k \in DOMAIN nodes : \A v \in Violations(nodes[k]) :
                             \E d \in Range(out[i].detail) :
                                 /\ d[2] = v[1]
                                 /\ v[1] = "missing" => d[3] = v[2]

\* ------------------------------------------------------------------------
\* C14
\* ------------------------------------------------------------------------

\* The number of results among out[from..Len(out)] that passed (ok = TRUE)
\* or failed (ok = FALSE).
RECURSIVE CountResults(_, _, _)
CountResults(results, from, ok) ==
    IF from > Len(results) THEN 0
    ELSE (IF results[from].ok = ok THEN 1 ELSE 0) + CountResults(results, from + 1, ok)

\* What a step does to the reporter's state: results and failures are only
\* appended, each new result moves its own counter by one, and nothing is
\* recorded once the summary is printed.
AppendOnlyStep ==
    /\ Len(out') >= Len(out)
    /\ SubSeq(out', 1, Len(out)) = out
    /\ Len(failures') >= Len(failures)
    /\ SubSeq(failures', 1, Len(failures)) = failures
    /\ passed' = passed + CountResults(out', Len(out) + 1, TRUE)
    /\ failed' = failed + CountResults(out', Len(out) + 1, FALSE)
    /\ Len(failures') - Len(failures) = failed' - failed
    /\ summary => (out' = out /\ failures' = failures
                   /\ passed' = passed /\ failed' = failed)

\* C14: reporting is append-only: no step of the run lowers a counter or
\* touches an earlier entry of the failure list, every result recorded moves
\* exactly one counter by one, and nothing is recorded after the summary.
C14_ReportingAppendOnly == [][AppendOnlyStep]_vars

\* A run that recorded passes and more than one failure and printed its
\* summary.
C14_Witness ==
    /\ sec = "exited"
    /\ summary
    /\ passed > 0
    /\ Len(failures) > 1
    /\ failures[1] # failures[2]

\* ------------------------------------------------------------------------
\* C15
\* ------------------------------------------------------------------------

\* C15: whatever name a script looks up, the lookup returns an item and the
\* script is not aborted: the item is empty for a name that is no key of the
\* fixture table, the first element for a key whose entry is a sequence, and
\* the entry itself for any other key.
C15_LookupNeverFails ==
    \A i \in DOMAIN seen :
        seen[i].lookups # <<>> =>
            /\ \E j \in NodeLines(seen[i].file, "executes without error and returns",
                                  seen[i].node) : out[j].ok
            /\ \A l \in Range(seen[i].lookups) :
                   l.json = (IF l.name \in ArrayFixtures
                             THEN [kind |-> "element", of |-> l.name]
                             ELSE IF l.name \in ObjectFixtures
                             THEN [kind |-> "object", of |-> l.name]
                             ELSE [kind |-> "empty", of |-> ""])

\* ------------------------------------------------------------------------
\* C16
\* ------------------------------------------------------------------------

\* The names the pattern finds in the stringified document, and in the text
\* of one request body, as sets.
StringifiedNames(wf) ==
    UNION {{JsonEscape(r) : r \in Range(wf.nodes[k].refs)}
           \cup (IF wf.nodes[k].jsonBody.kind = "text"
                 THEN {JsonEscape(r) : r \in Range(wf.nodes[k].jsonBody.refs)}
                 ELSE {}) : k \in DOMAIN wf.nodes}

NamesOf(wf) == {wf.nodes[k].name : k \in DOMAIN wf.nodes}

\* C16: what an extraction finds depends on the text it scans alone, not on
\* what earlier extractions left behind: the count and the unresolved names
\* recorded for a document are those of its own text, the unresolved names
\* recorded for a request body are those of that body, and two files that
\* hold the same document get the same reference results.
C16_ExtractionIdempotent ==
    /\ \A f \in 1..NumFiles :
           /\ \A i \in Lines(f, "found node references, all valid") :
                  out[i].label.node = ToString(Cardinality(StringifiedNames(workflows[f])))
           /\ \A i \in Lines(f, "all references point to existing nodes") :
                  {d[1] : d \in Range(out[i].detail)}
                      = StringifiedNames(workflows[f]) \ NamesOf(workflows[f])
           /\ \A i \in Lines(f, "prompt node references are valid") :
                  \E k \in DOMAIN workflows[f].nodes :
                      /\ workflows[f].nodes[k].name = out[i].label.node
                      /\ {d[1] : d \in Range(out[i].detail)}
                             = Range(workflows[f].nodes[k].jsonBody.refs)
                                   \ NamesOf(workflows[f])
    /\ \A f, g \in 1..NumFiles :
           workflows[f] = workflows[g] =>
               \A c \in {"found node references, all valid",
                         "all references point to existing nodes",
                         "prompt node references are valid"} :
                   (Lines(f, c) # {} /\ Lines(g, c) # {}) =>
                       {<<out[i].ok, out[i].label.node, out[i].detail>> : i \in Lines(f, c)}
                           = {<<out[i].ok, out[i].label.node, out[i].detail>> : i \in Lines(g, c)}

\* The run is through with the extractions of two different documents that
\* both hold references, the second of them also in a request body.
C16_Witness ==
    /\ sec = "exited"
    /\ workflows[1] # workflows[2]
    /\ \A f \in 1..NumFiles :
           /\ Lines(f, "prompt node references are valid") # {}
           /\ \E i \in Lines(f, "found node references, all valid") :
                  out[i].label.node # "0"
    /\ \E i \in Lines(1, "found node references, all valid"),
          j \in Lines(2, "found node references, all valid") :
              out[i].label.node # out[j].label.node

\* ------------------------------------------------------------------------
\* C17
\* ------------------------------------------------------------------------

\* The itemized failure list has been printed: the reporter ran and the
\* failure list was not empty.
FailureListPrinted == summary /\ Len(failures) > 0

\* C17: the failed counter is the length of the failure list, passed plus
\* failed is the number of results recorded, the failure list holds one
\* entry per failed result, and when the process has ended the failure list
\* was printed iff the exit status is 1.
C17_CountersMatchLists ==
    /\ failed = Len(failures)
    /\ passed + failed = Len(out)
    /\ failed = CountResults(out, 1, FALSE)
    /\ Ended => (FailureListPrinted <=> exitStatus = 1)

====
